---- MODULE Spec2Model ----
(***************************************************************************)
(* Meeting analyzer: the three API route handlers (analyze, fetchanalysis, *)
(* deleteanalysis), the request schema and the Analysis Requester          *)
(* (analyzeMeeting), over a store of Transcript and Analysis records.      *)
(*                                                                         *)
(* Strings.  A transcript string is [lead, core, trail]: `lead` leading    *)
(* whitespace characters, `core` characters from the first to the last     *)
(* non-whitespace character, `trail` trailing whitespace characters.  An   *)
(* all-whitespace string has core = 0 and trail = 0.  String.length is     *)
(* lead + core + trail and String.trim() keeps the core.                   *)
(*                                                                         *)
(* Model output.  The text of a model reply is a sequence of tokens:       *)
(*   "{" "}"  the brace characters                                         *)
(*   "F"      the fence marker ```                                         *)
(*   "J"      the fence marker ```json                                     *)
(*   "p"      a run of prose without braces, backticks or whitespace       *)
(*   "w"      a run of whitespace                                          *)
(*   "M"      the members "action_items":[..],"decisions":[..],            *)
(*            "sentiment":".." of a well-formed analysis                   *)
(*   "T"      the same members, one decision string containing ```         *)
(*   "U"      what is left of "T" when the ``` inside it is deleted        *)
(*   "B"      members whose sentiment is a number                          *)
(*   "Ba"     members whose action_items is not an array                   *)
(*   "Bd"     members without decisions                                    *)
(*   "Bi"     members whose action_items holds an item without owner       *)
(***************************************************************************)
EXTENDS Integers, Sequences, FiniteSets, TLC

\* ------------------------------------------------------------------ bounds
MaxReq == 2
MaxPad == 1
MaxTextLen == 5
MaxKey == 2
MaxRetry == 1

\* --------------------------------------------------------- program constants
SchemaMin == 10
SchemaMax == 5000
HandlerMin == 10
HandlerMax == 5000
RequesterMin == 10

\* ------------------------------------------------------------------ strings
Str(l, c, t) == [lead |-> l, core |-> c, trail |-> t]

StrLen(s) == s.lead + s.core + s.trail

Trim(s) == Str(0, s.core, 0)

\* The transcript strings requests are drawn from: empty, all whitespace, cores
\* at the edges of the two limits behind up to MaxPad whitespace characters,
\* and one core in front of whitespace.
Strs ==
    { Str(l, c, 0) : l \in 0..MaxPad, c \in {SchemaMin - 1, SchemaMin, SchemaMax} }
        \cup { Str(0, 0, 0), Str(SchemaMin, 0, 0), Str(0, SchemaMin, MaxPad),
               Str(0, SchemaMax + 1, 0) }

\* ------------------------------------------------------------- model output
Alphabet == {"{", "}", "F", "J", "p", "w", "M", "T", "B"}

MemberTokens == {"M", "T", "U", "B", "Ba", "Bd", "Bi"}

SeqsUpTo(S, n) == UNION { [1..k -> S] : k \in 0..n }

Texts == SeqsUpTo(Alphabet, MaxTextLen)

Positions(text, tok) == { i \in 1..Len(text) : text[i] = tok }

Min(S) == CHOOSE x \in S : \A y \in S : x <= y
Max(S) == CHOOSE x \in S : \A y \in S : x >= y

RECURSIVE Without(_, _)
Without(text, toks) ==
    IF text = <<>> THEN <<>>
    ELSE IF Head(text) \in toks THEN Without(Tail(text), toks)
    ELSE <<Head(text)>> \o Without(Tail(text), toks)

RECURSIVE TrimLeft(_)
TrimLeft(text) ==
    IF text # <<>> /\ Head(text) = "w" THEN TrimLeft(Tail(text)) ELSE text

RECURSIVE TrimRight(_)
TrimRight(text) ==
    IF text # <<>> /\ text[Len(text)] = "w"
    THEN TrimRight(SubSeq(text, 1, Len(text) - 1))
    ELSE text

TrimText(text) == TrimRight(TrimLeft(text))

\* ------------------------------------------------------------- JSON values
\* A parsed JSON object, as far as the code inspects it: what each of the three
\* fields holds.
Obj(a, d, s) == [action_items |-> a, decisions |-> d, sentiment |-> s]

EmptyObj == Obj("absent", "absent", "absent")

NoObj == Obj("none", "none", "none")

ObjOf(tok) ==
    CASE tok = "M"  -> Obj("items_ok", "strings", "string")
      [] tok = "T"  -> Obj("items_ok", "fenced", "string")
      [] tok = "U"  -> Obj("items_ok", "stripped", "string")
      [] tok = "B"  -> Obj("items_ok", "strings", "number")
      [] tok = "Ba" -> Obj("notarray", "strings", "string")
      [] tok = "Bd" -> Obj("items_ok", "absent", "string")
      [] tok = "Bi" -> Obj("items_bad", "strings", "string")

IsArray(v) == v \in {"items_ok", "items_bad", "strings", "fenced", "stripped"}

\* JSON.parse on a token sequence that starts with "{": whitespace between
\* tokens is skipped; what remains must be {} or { members }.
JSONParse(text) ==
    LET t == Without(text, {"w"})
    IN  IF t = <<"{", "}">> THEN [ok |-> TRUE, value |-> EmptyObj]
        ELSE IF Len(t) = 3 /\ t[1] = "{" /\ t[3] = "}" /\ t[2] \in MemberTokens
        THEN [ok |-> TRUE, value |-> ObjOf(t[2])]
        ELSE [ok |-> FALSE, value |-> NoObj]

\* ------------------------------------------------------ Analysis Requester
\* What anthropic.messages.create gives back: it throws, or it resolves with a
\* content list that has a text block or has none.
ApiFail == [kind |-> "apifail", text |-> <<>>]
NoTextBlock == [kind |-> "notext", text |-> <<>>]
TextReply(t) == [kind |-> "text", text |-> t]

Return(v) == [kind |-> "return", value |-> v, msg |-> "none"]
Throw(m) == [kind |-> "throw", value |-> NoObj, msg |-> m]
NoResult == [kind |-> "none", value |-> NoObj, msg |-> "none"]

\* AMInputOK measuring the text as given instead of the trimmed text.
AMInputOKUntrimmed(s) == StrLen(s) # 0 /\ StrLen(s) >= RequesterMin

\* analyzeMeeting, before the call of the model: the input check.
AMInputOK(s) == StrLen(s) # 0 /\ StrLen(Trim(s)) >= RequesterMin

\* jsonText.match(/\{[\s\S]*\}/): the span from the first "{" to the last "}",
\* <<>> when there is no "{" with a "}" after it.
Match(text) ==
    LET opens == Positions(text, "{")
        closes == Positions(text, "}")
    IN  IF opens # {} /\ closes # {} /\ Min(opens) < Max(closes)
        THEN SubSeq(text, Min(opens), Max(closes))
        ELSE <<>>

\* .replace(/```json/g, ""), then .replace(/```/g, ""): the second also deletes
\* the marker inside a string of the object.
StripJsonFence(text) == Without(text, {"J"})

StripFence(text) ==
    LET kept == Without(text, {"F"})
    IN  [i \in 1..Len(kept) |-> IF kept[i] = "T" THEN "U" ELSE kept[i]]

StripFences(text) == TrimText(StripFence(StripJsonFence(text)))

\* ShapeOK without the test of sentiment.
ShapeOKNoSentiment(v) == IsArray(v.action_items) /\ IsArray(v.decisions)

\* The check of the parsed value inside the inner try.
ShapeOK(v) == IsArray(v.action_items) /\ IsArray(v.decisions) /\ v.sentiment = "string"

\* The inner try/catch: a parse failure and a missing structure both leave as
\* "Failed to parse Claude response as valid JSON."
ParseAndCheck(jsonText) ==
    LET parsed == JSONParse(jsonText)
    IN  IF parsed.ok /\ ShapeOK(parsed.value)
        THEN Return(parsed.value)
        ELSE Throw("FailedToParse")

\* analyzeMeeting, from the model's reply on.
AMFinish(reply) ==
    IF reply.kind = "apifail" THEN Throw("ApiFailure")
    ELSE IF reply.kind = "notext" THEN Throw("NoTextContent")
    ELSE LET jsonText == TrimText(reply.text)
             match == Match(jsonText)
         IN  IF match = <<>> THEN Throw("InvalidJsonFormat")
             ELSE ParseAndCheck(StripFences(match))

\* ------------------------------------------------------------------- state
VARIABLES
    transcripts,   \* the Transcript table: records [id, text, createdAt]
    analyses,      \* the Analysis table: records [id, transcriptId, result, createdAt]
    nextId,        \* the next identifier the store hands out
    now,           \* the store's clock
    req,           \* req[r]: the handler invocation running in slot r
    sent,          \* the last exchange: the invocation that was answered last
    answered,      \* the number of responses sent so far
    rq,            \* a direct call of analyzeMeeting (SpecRequester)
    ui             \* a page of the client (SpecClient)

vars == <<transcripts, analyses, nextId, now, req, sent, answered, rq, ui>>

Slots == 1..MaxReq

Methods == {"GET", "POST", "DELETE"}

\* What a database call can do besides what the rows decide: succeed, or throw
\* an error carrying a Prisma code (P1001 cannot reach the database, P2024 any
\* other code) or an error without a code.  P2025, record not found, is what
\* delete throws when the row is gone.
DbOutcomes == {"ok", "P1001", "P2024", "nocode"}

\* ------------------------------------------------------------ request input
NoBody == [kind |-> "none", hasStr |-> FALSE, transcript |-> Str(0, 0, 0)]
NonObjectBody == [kind |-> "nonobject", hasStr |-> FALSE, transcript |-> Str(0, 0, 0)]
NoTranscriptBody == [kind |-> "object", hasStr |-> FALSE, transcript |-> Str(0, 0, 0)]
TranscriptBody(s) == [kind |-> "object", hasStr |-> TRUE, transcript |-> s]

Bodies == {NoBody, NonObjectBody, NoTranscriptBody} \cup { TranscriptBody(s) : s \in Strs }

\* req.query.id: absent, a list of strings, or one string (its length, its
\* length after trim(), and the Analysis key it spells, 0 for none).
NoId == [kind |-> "missing", len |-> 0, trimLen |-> 0, key |-> 0]
ArrayId == [kind |-> "array", len |-> 0, trimLen |-> 0, key |-> 0]
EmptyId == [kind |-> "string", len |-> 0, trimLen |-> 0, key |-> 0]
BlankId == [kind |-> "string", len |-> 1, trimLen |-> 0, key |-> 0]
KeyId(k) == [kind |-> "string", len |-> 1, trimLen |-> 1, key |-> k]

IdArgs == {NoId, ArrayId, EmptyId, BlankId} \cup { KeyId(k) : k \in 1..MaxKey }

\* The model replies the handler runs are drawn from.
HandlerReplies ==
    { ApiFail, NoTextBlock,
      TextReply(<<"p">>),
      TextReply(<<"{", "B", "}">>),
      TextReply(<<"J", "{", "M", "}", "F">>),
      TextReply(<<"{", "Bi", "}">>) }

\* ------------------------------------------------------------ Schema Validator
\* AnalyzeRequestSchema.safeParse(req.body)
SchemaOK(body) ==
    /\ body.kind = "object"
    /\ body.hasStr
    /\ StrLen(body.transcript) >= SchemaMin
    /\ StrLen(body.transcript) <= SchemaMax

\* ------------------------------------------------------------- invocations
IdleReq ==
    [kind |-> "none", pc |-> "idle", method |-> "none", body |-> NoBody, id |-> NoId,
     analysis |-> NoObj, status |-> 0, error |-> "none", message |-> "none", out |-> <<>>,
     responses |-> 0, modelCalls |-> 0, modelResult |-> "none", dbOps |-> <<>>, dbErr |-> "none"]

\* return res.status(status).json(...): a response is sent and the invocation
\* ends.  `error` is the error field of the body, "none" when it has none.
Respond(q, status, error, out) ==
    [q EXCEPT !.pc = "done", !.status = status, !.error = error, !.out = out,
              !.responses = @ + 1]

\* return res.status(status).json({ message })
RespondMessage(q, status, message) ==
    [Respond(q, status, "none", <<>>) EXCEPT !.message = message]

\* Slot r goes on as q; when q has answered, the exchange is over and the slot
\* is free again.
Settle(r, q) ==
    IF q.pc = "done"
    THEN /\ req' = [req EXCEPT ![r] = IdleReq]
         /\ sent' = q
         /\ answered' = answered + 1
    ELSE /\ req' = [req EXCEPT ![r] = q]
         /\ UNCHANGED <<sent, answered>>

Running == { r \in Slots : req[r].pc # "idle" }

\* A request arrives in slot r: the lowest free slot, while fewer than MaxReq
\* requests have arrived.
Arrives(r) ==
    /\ req[r].pc = "idle"
    /\ \A s \in Slots : s < r => req[s].pc # "idle"
    /\ answered + Cardinality(Running) < MaxReq

FrameStore == UNCHANGED <<transcripts, analyses, nextId, now>>

\* ---------------------------------------------------------- POST /api/analyze
\* AnalyzeCheck without an upper limit: the schema asks for the minimum only and
\* the handler's "too long" check is gone.
AnalyzeCheckNoMax(method, body) ==
    IF method # "POST"
    THEN [status |-> 405, error |-> "Method not allowed. Use POST instead."]
    ELSE IF body.kind # "object"
    THEN [status |-> 400, error |-> "Invalid or empty request body. Expected JSON."]
    ELSE IF ~(body.hasStr /\ StrLen(body.transcript) >= SchemaMin)
    THEN [status |-> 400, error |-> "Invalid request body structure."]
    ELSE IF StrLen(Trim(body.transcript)) < HandlerMin
    THEN [status |-> 400,
          error |-> "Transcript must be a non-empty string with at least 10 characters."]
    ELSE [status |-> 0, error |-> "none"]

\* AnalyzeCheck without the handler's test of the trimmed length.
AnalyzeCheckNoTrim(method, body) ==
    IF method # "POST"
    THEN [status |-> 405, error |-> "Method not allowed. Use POST instead."]
    ELSE IF body.kind # "object"
    THEN [status |-> 400, error |-> "Invalid or empty request body. Expected JSON."]
    ELSE IF ~SchemaOK(body)
    THEN [status |-> 400, error |-> "Invalid request body structure."]
    ELSE IF StrLen(body.transcript) > HandlerMax
    THEN [status |-> 400, error |-> "Transcript too long. Maximum allowed is 5000 characters."]
    ELSE [status |-> 0, error |-> "none"]

\* The checks of the analyze handler before it calls analyzeMeeting: the status
\* and message it answers with, status 0 when the request passes.
AnalyzeCheck(method, body) ==
    IF method # "POST"
    THEN [status |-> 405, error |-> "Method not allowed. Use POST instead."]
    ELSE IF body.kind # "object"
    THEN [status |-> 400, error |-> "Invalid or empty request body. Expected JSON."]
    ELSE IF ~SchemaOK(body)
    THEN [status |-> 400, error |-> "Invalid request body structure."]
    ELSE IF StrLen(Trim(body.transcript)) < HandlerMin
    THEN [status |-> 400,
          error |-> "Transcript must be a non-empty string with at least 10 characters."]
    ELSE IF StrLen(body.transcript) > HandlerMax
    THEN [status |-> 400, error |-> "Transcript too long. Maximum allowed is 5000 characters."]
    ELSE [status |-> 0, error |-> "none"]

\* The handler's own check of what analyzeMeeting returned.
AnalysisFormatOK(v) == IsArray(v.action_items) /\ IsArray(v.decisions)

\* The row prisma.transcript.create writes for the nested analysis.
AnalysisData(v) ==
    [actionItems |-> v.action_items,
     decisions |-> v.decisions,
     sentiment |-> IF v.sentiment \in {"absent", "none"} THEN "string" ELSE v.sentiment]

\* The status the analyze handler answers a failed save with.
AnalyzeSaveErrorStatus(code) == 500

\* The invocation of the analyze handler from its request to the call of the
\* model, or to its answer when a check fails.
AnalyzeBegin(method, body) ==
    LET q == [IdleReq EXCEPT !.kind = "analyze", !.method = method, !.body = body]
        chk == AnalyzeCheck(method, body)
    IN  IF chk.status # 0 THEN Respond(q, chk.status, chk.error, <<>>)
        ELSE IF ~AMInputOK(body.transcript)
        THEN Respond([q EXCEPT !.modelResult = "InvalidTranscript"],
                     500, "AI analysis failed.", <<>>)
        ELSE [q EXCEPT !.pc = "await_model", !.modelCalls = 1]

\* AnalyzeStart writing the Transcript row before the model is called.
AnalyzeStartSavesFirst(r, method, body) ==
    /\ Arrives(r)
    /\ LET q == AnalyzeBegin(method, body)
           pass == q.pc = "await_model"
       IN  /\ Settle(r, IF pass THEN [q EXCEPT !.dbOps = <<"create">>] ELSE q)
           /\ transcripts' = IF pass
                THEN transcripts \cup {[id |-> nextId, text |-> body.transcript, createdAt |-> now]}
                ELSE transcripts
           /\ nextId' = IF pass THEN nextId + 1 ELSE nextId
    /\ UNCHANGED <<analyses, now, rq, ui>>

\* The request arrives; the handler runs up to the call of the model.
AnalyzeStart(r, method, body) ==
    /\ Arrives(r)
    /\ Settle(r, AnalyzeBegin(method, body))
    /\ FrameStore
    /\ UNCHANGED <<rq, ui>>

\* AnalyzeModelReturn calling analyzeMeeting a second time when the first call
\* has thrown.
AnalyzeModelReturnRetries(r, reply) ==
    /\ req[r].pc = "await_model"
    /\ LET res == AMFinish(reply)
           q == [req[r] EXCEPT !.modelResult = IF res.kind = "throw" THEN res.msg ELSE "ok"]
       IN  Settle(r,
                IF res.kind = "throw" /\ req[r].modelCalls < 2
                THEN [req[r] EXCEPT !.modelCalls = @ + 1]
                ELSE IF res.kind = "throw"
                THEN Respond(q, 500, "AI analysis failed.", <<>>)
                ELSE IF ~AnalysisFormatOK(res.value)
                THEN Respond(q, 500, "AI returned unexpected data format.", <<>>)
                ELSE [q EXCEPT !.pc = "await_create", !.analysis = res.value,
                               !.dbOps = Append(@, "create")])
    /\ FrameStore
    /\ UNCHANGED <<rq, ui>>

\* The model call settles; analyzeMeeting finishes and the handler goes on to
\* the save.
AnalyzeModelReturn(r, reply) ==
    /\ req[r].pc = "await_model"
    /\ LET res == AMFinish(reply)
           q == [req[r] EXCEPT !.modelResult = IF res.kind = "throw" THEN res.msg ELSE "ok"]
       IN  Settle(r,
                IF res.kind = "throw"
                THEN Respond(q, 500, "AI analysis failed.", <<>>)
                ELSE IF ~AnalysisFormatOK(res.value)
                THEN Respond(q, 500, "AI returned unexpected data format.", <<>>)
                ELSE [q EXCEPT !.pc = "await_create", !.analysis = res.value,
                               !.dbOps = Append(@, "create")])
    /\ FrameStore
    /\ UNCHANGED <<rq, ui>>

\* AnalyzeCreateReturn as two separate writes: when the second one fails the
\* Transcript row stays.
AnalyzeCreateReturnTwoWrites(r, outcome) ==
    /\ req[r].pc = "await_create"
    /\ transcripts' = transcripts \cup
            {[id |-> nextId, text |-> req[r].body.transcript, createdAt |-> now]}
    /\ nextId' = nextId + 1
    /\ now' = now + 1
    /\ IF outcome = "ok"
       THEN /\ analyses' = analyses \cup
                    {[id |-> nextId, transcriptId |-> nextId,
                      result |-> AnalysisData(req[r].analysis), createdAt |-> now]}
            /\ Settle(r, Respond(req[r], 200, "none", <<nextId>>))
       ELSE /\ analyses' = analyses
            /\ Settle(r, Respond([req[r] EXCEPT !.dbErr = outcome],
                                 AnalyzeSaveErrorStatus(outcome),
                                 "Failed to save analysis results to database.", <<>>))
    /\ UNCHANGED <<rq, ui>>

\* prisma.transcript.create with the nested analysis settles: one transaction
\* writes both rows, or it throws and writes none.
AnalyzeCreateReturn(r, outcome) ==
    /\ req[r].pc = "await_create"
    /\ IF outcome = "ok"
       THEN /\ transcripts' = transcripts \cup
                    {[id |-> nextId, text |-> req[r].body.transcript, createdAt |-> now]}
            /\ analyses' = analyses \cup
                    {[id |-> nextId, transcriptId |-> nextId,
                      result |-> AnalysisData(req[r].analysis), createdAt |-> now]}
            /\ nextId' = nextId + 1
            /\ now' = now + 1
            /\ Settle(r, Respond(req[r], 200, "none", <<nextId>>))
       ELSE /\ FrameStore
            /\ Settle(r, Respond([req[r] EXCEPT !.dbErr = outcome],
                                 AnalyzeSaveErrorStatus(outcome),
                                 "Failed to save analysis results to database.", <<>>))
    /\ UNCHANGED <<rq, ui>>

\* ------------------------------------------------------ GET /api/fetchanalysis
\* NewestFirst without the orderBy: the rows in any order.
NewestFirstUnordered(rows) ==
    { s \in [1..Cardinality(rows) -> rows] :
        \A i, j \in DOMAIN s : i # j => s[i] # s[j] }

\* findMany with orderBy createdAt desc: the orders it may return the rows in.
NewestFirst(rows) ==
    { s \in [1..Cardinality(rows) -> rows] :
        /\ \A i, j \in DOMAIN s : i # j => s[i] # s[j]
        /\ \A i, j \in DOMAIN s : i < j => s[i].createdAt >= s[j].createdAt }

\* include: { transcript: true }: the row as the response carries it, with the
\* Transcript it references.
Include(a) ==
    [id |-> a.id, createdAt |-> a.createdAt, result |-> a.result,
     transcript |-> CHOOSE t \in transcripts : t.id = a.transcriptId]

\* The status the list handler's catch answers with.
ListErrorStatus(code) == IF code = "P1001" THEN 503 ELSE 500

ListErrorMessage(code) ==
    IF code = "P1001" THEN "Database connection error." ELSE "Failed to fetch past analyses."

ListStart(r, method) ==
    /\ Arrives(r)
    /\ LET q == [IdleReq EXCEPT !.kind = "list", !.method = method]
       IN  Settle(r,
                IF method # "GET"
                THEN Respond(q, 405, "Method not allowed. Only GET is supported.", <<>>)
                ELSE [q EXCEPT !.pc = "await_findMany", !.dbOps = <<"findMany">>])
    /\ FrameStore
    /\ UNCHANGED <<rq, ui>>

\* ListFindManyReturn without the check for an empty result.
ListFindManyReturnNoEmptyCheck(r, outcome) ==
    /\ req[r].pc = "await_findMany"
    /\ IF outcome = "ok"
       THEN \E rows \in NewestFirst(analyses) :
                Settle(r, Respond(req[r], 200, "none", [i \in DOMAIN rows |-> Include(rows[i])]))
       ELSE Settle(r, Respond([req[r] EXCEPT !.dbErr = outcome], ListErrorStatus(outcome),
                              ListErrorMessage(outcome), <<>>))
    /\ FrameStore
    /\ UNCHANGED <<rq, ui>>

\* prisma.analysis.findMany settles.
ListFindManyReturn(r, outcome) ==
    /\ req[r].pc = "await_findMany"
    /\ IF outcome = "ok"
       THEN \E rows \in NewestFirst(analyses) :
                Settle(r,
                    IF Len(rows) = 0
                    THEN Respond(req[r], 404, "No analyses found.", <<>>)
                    ELSE Respond(req[r], 200, "none", [i \in DOMAIN rows |-> Include(rows[i])]))
       ELSE Settle(r, Respond([req[r] EXCEPT !.dbErr = outcome], ListErrorStatus(outcome),
                              ListErrorMessage(outcome), <<>>))
    /\ FrameStore
    /\ UNCHANGED <<rq, ui>>

\* -------------------------------------------------- DELETE /api/deleteanalysis
\* IdInvalid without the trim() test.
IdInvalidNoTrim(id) == id.kind # "string" \/ id.len = 0

\* !id || typeof id !== "string" || id.trim().length === 0
IdInvalid(id) == id.kind # "string" \/ id.len = 0 \/ id.trimLen = 0

Existing(key) == { a \in analyses : a.id = key }

\* DeleteErrorStatus answering every failure alike.
DeleteErrorStatusGeneric(code) == 500

\* The switch of the delete handler's catch.
DeleteErrorStatus(code) ==
    CASE code = "P2025" -> 404
      [] code = "P1001" -> 503
      [] OTHER -> 500

DeleteErrorMessage(code) ==
    CASE code = "P2025" -> "Analysis not found (already deleted)."
      [] code = "P1001" -> "Cannot reach the database. Please try again later."
      [] code = "nocode" -> "Unexpected server error while deleting analysis."
      [] OTHER -> "Database error occurred while deleting analysis."

\* DeleteStart without the method check.
DeleteStartAnyMethod(r, method, id) ==
    /\ Arrives(r)
    /\ LET q == [IdleReq EXCEPT !.kind = "delete", !.method = method, !.id = id]
       IN  Settle(r,
                IF IdInvalid(id)
                THEN Respond(q, 400, "Invalid or missing analysis ID.", <<>>)
                ELSE [q EXCEPT !.pc = "await_findUnique", !.dbOps = <<"findUnique">>])
    /\ FrameStore
    /\ UNCHANGED <<rq, ui>>

DeleteStart(r, method, id) ==
    /\ Arrives(r)
    /\ LET q == [IdleReq EXCEPT !.kind = "delete", !.method = method, !.id = id]
       IN  Settle(r,
                IF method # "DELETE"
                THEN Respond(q, 405, "Method not allowed. Use DELETE instead.", <<>>)
                ELSE IF IdInvalid(id)
                THEN Respond(q, 400, "Invalid or missing analysis ID.", <<>>)
                ELSE [q EXCEPT !.pc = "await_findUnique", !.dbOps = <<"findUnique">>])
    /\ FrameStore
    /\ UNCHANGED <<rq, ui>>

\* DeleteFindReturn answering 200 when there is nothing to delete.
DeleteFindReturnSilent(r, outcome) ==
    /\ req[r].pc = "await_findUnique"
    /\ Settle(r,
            IF outcome # "ok"
            THEN Respond([req[r] EXCEPT !.dbErr = outcome], DeleteErrorStatus(outcome),
                         DeleteErrorMessage(outcome), <<>>)
            ELSE IF Existing(req[r].id.key) = {}
            THEN RespondMessage(req[r], 200, "Analysis deleted successfully.")
            ELSE [req[r] EXCEPT !.pc = "await_delete", !.dbOps = Append(@, "delete")])
    /\ FrameStore
    /\ UNCHANGED <<rq, ui>>

\* prisma.analysis.findUnique settles.
DeleteFindReturn(r, outcome) ==
    /\ req[r].pc = "await_findUnique"
    /\ Settle(r,
            IF outcome # "ok"
            THEN Respond([req[r] EXCEPT !.dbErr = outcome], DeleteErrorStatus(outcome),
                         DeleteErrorMessage(outcome), <<>>)
            ELSE IF Existing(req[r].id.key) = {}
            THEN Respond(req[r], 404,
                         "Analysis not found. It may have already been deleted.", <<>>)
            ELSE [req[r] EXCEPT !.pc = "await_delete", !.dbOps = Append(@, "delete")])
    /\ FrameStore
    /\ UNCHANGED <<rq, ui>>

\* DeleteDeleteReturn without the catch: a failed delete leaves the handler as
\* an exception and no response is sent.
DeleteDeleteReturnUncaught(r, outcome) ==
    /\ req[r].pc = "await_delete"
    /\ LET code == IF outcome = "ok" /\ Existing(req[r].id.key) = {} THEN "P2025" ELSE outcome
       IN  IF code = "ok"
           THEN /\ analyses' = analyses \ Existing(req[r].id.key)
                /\ Settle(r, RespondMessage(req[r], 200, "Analysis deleted successfully."))
           ELSE /\ analyses' = analyses
                /\ Settle(r, [req[r] EXCEPT !.pc = "threw", !.dbErr = code])
    /\ UNCHANGED <<transcripts, nextId, now, rq, ui>>

\* DeleteDeleteReturn removing the Transcript of the Analysis as well.
DeleteDeleteReturnCascade(r, outcome) ==
    /\ req[r].pc = "await_delete"
    /\ LET code == IF outcome = "ok" /\ Existing(req[r].id.key) = {} THEN "P2025" ELSE outcome
       IN  IF code = "ok"
           THEN /\ analyses' = analyses \ Existing(req[r].id.key)
                /\ transcripts' = { t \in transcripts :
                        \A a \in Existing(req[r].id.key) : t.id # a.transcriptId }
                /\ Settle(r, RespondMessage(req[r], 200, "Analysis deleted successfully."))
           ELSE /\ analyses' = analyses
                /\ transcripts' = transcripts
                /\ Settle(r, Respond([req[r] EXCEPT !.dbErr = code], DeleteErrorStatus(code),
                                     DeleteErrorMessage(code), <<>>))
    /\ UNCHANGED <<nextId, now, rq, ui>>

\* prisma.analysis.delete settles: it throws P2025 when the row is gone.
DeleteDeleteReturn(r, outcome) ==
    /\ req[r].pc = "await_delete"
    /\ LET code == IF outcome = "ok" /\ Existing(req[r].id.key) = {} THEN "P2025" ELSE outcome
       IN  IF code = "ok"
           THEN /\ analyses' = analyses \ Existing(req[r].id.key)
                /\ Settle(r, RespondMessage(req[r], 200, "Analysis deleted successfully."))
           ELSE /\ analyses' = analyses
                /\ Settle(r, Respond([req[r] EXCEPT !.dbErr = code], DeleteErrorStatus(code),
                                     DeleteErrorMessage(code), <<>>))
    /\ UNCHANGED <<transcripts, nextId, now, rq, ui>>

\* ------------------------------------------- analyzeMeeting called directly
IdleRq == [pc |-> "idle", text |-> Str(0, 0, 0), invoked |-> FALSE,
           reply |-> NoTextBlock, result |-> NoResult]

\* The strings a direct call is given: empty, too short once trimmed, at the
\* lower limit, above the upper limit.
RequesterStrs ==
    { Str(0, 0, 0), Str(MaxPad, RequesterMin - 1, 0), Str(0, RequesterMin, 0),
      Str(0, SchemaMax + 1, 0) }

\* The replies a direct call is answered with: every text for the string at the
\* lower limit, the handlers' replies for the others.
RepliesFor(text) ==
    IF text = Str(0, RequesterMin, 0)
    THEN {ApiFail, NoTextBlock} \cup { TextReply(t) : t \in Texts }
    ELSE HandlerReplies

\* analyzeMeeting(text) up to the call of the model.
RqCall ==
    /\ rq.pc = "called"
    /\ rq' = IF AMInputOK(rq.text)
             THEN [rq EXCEPT !.pc = "await_model", !.invoked = TRUE]
             ELSE [rq EXCEPT !.pc = "done", !.result = Throw("InvalidTranscript")]
    /\ FrameStore
    /\ UNCHANGED <<req, sent, answered, ui>>

\* analyzeMeeting from the model's reply to its return or throw.
RqReturn(reply) ==
    /\ rq.pc = "await_model"
    /\ rq' = [rq EXCEPT !.pc = "done", !.reply = reply, !.result = AMFinish(reply)]
    /\ FrameStore
    /\ UNCHANGED <<req, sent, answered, ui>>

\* ------------------------------------------------------------------ client
\* The retries useQuery makes on the transcript page.
DetailRetry == 1

\* A page: the form (TranscriptForm), the list of past analyses with its delete
\* action (AnalysesPage) or the detail of one transcript (TranscriptPage).
\*   phase     what the page renders: "idle" the form before Analyze is clicked,
\*             "loading", "error", "empty", "success", "deleting" the delete
\*             mutation pending, "delete_error" the list under the error banner,
\*             "refetching" the list while the invalidated query runs again
\*   text      the textarea's content (form)
\*   id        router.query.id (detail): the key of a Transcript
\*   selected  selectedId (list): the key of the Analysis to delete, 0 for null
\*   message   the error message rendered
\*   cause     what the last failure was: "response" an answer of the server,
\*             "network" no answer, "local" a check of the page itself
\*   seen      the number of responses the page has received
\*   failures  the failed attempts of the running query
\*   data      what the request resolved with
IdleUi ==
    [view |-> "none", phase |-> "idle", text |-> Str(0, 0, 0), id |-> 0, selected |-> 0,
     message |-> "none", cause |-> "none", seen |-> 0, failures |-> 0, data |-> <<>>]

FormUi(text) == [IdleUi EXCEPT !.view = "form", !.text = text]
ListUi == [IdleUi EXCEPT !.view = "list", !.phase = "loading"]
DetailUi(id) == [IdleUi EXCEPT !.view = "detail", !.phase = "loading", !.id = id]

\* err.message of an axios error that carries no response.
AxiosMessage == "Network Error"

\* err.response?.data?.error || err.message
ServerOrAxiosMessage(cause, q) ==
    IF cause = "response" /\ q.error # "none" THEN q.error ELSE AxiosMessage

UiError(u, cause, message) ==
    [u EXCEPT !.phase = "error", !.cause = cause, !.message = message, !.failures = 0]

UiRetry(u) == [u EXCEPT !.failures = @ + 1]

\* What the page becomes when its request has failed: q is the response when
\* the server answered.  useQuery runs the query again before it reports the
\* error: on the list page as often as the library decides, at most MaxRetry
\* times here; on the transcript page DetailRetry times.  Mutations are not
\* run again.
UiFailed(u, cause, q) ==
    CASE u.view = "form" ->
            { UiError(u, cause, ServerOrAxiosMessage(cause, q)) }
      [] u.view = "list" /\ u.phase = "deleting" ->
            { [u EXCEPT !.phase = "delete_error", !.cause = cause,
                        !.message = "Error deleting analysis. Please try again."] }
      [] u.view = "list" /\ u.phase # "deleting" ->
            { UiError(u, cause, "Unable to fetch analyses from server.") }
                \cup (IF u.failures < MaxRetry THEN { UiRetry(u) } ELSE {})
      [] u.view = "detail" ->
            IF u.failures < DetailRetry THEN { UiRetry(u) }
            ELSE { UiError(u, cause, ServerOrAxiosMessage(cause, q)) }

\* The failure of the transcript page's own checks inside queryFn: the catch
\* of queryFn replaces the message.
UiDetailLocalFailure(u) ==
    IF u.failures < DetailRetry THEN UiRetry(u)
    ELSE UiError(u, "local", "Failed to fetch transcript data.")

\* What the page becomes when its request is answered 2xx with q.
UiResolved(u, q) ==
    CASE u.view = "form" ->
            [u EXCEPT !.phase = "success", !.data = q.out, !.message = "none",
                      !.cause = "none"]
      [] u.view = "list" /\ u.phase = "deleting" ->
            [u EXCEPT !.phase = "refetching", !.selected = 0, !.message = "none",
                      !.cause = "none"]
      [] u.view = "list" /\ u.phase # "deleting" ->
            [u EXCEPT !.phase = IF Len(q.out) = 0 THEN "empty" ELSE "success",
                      !.data = q.out, !.failures = 0, !.cause = "none"]
      [] u.view = "detail" ->
            LET found == { i \in DOMAIN q.out : q.out[i].transcript.id = u.id }
            IN  IF found = {} THEN UiDetailLocalFailure(u)
                ELSE [u EXCEPT !.phase = "success", !.data = <<q.out[Min(found)]>>,
                               !.failures = 0, !.cause = "none"]

\* handleAnalyze: the checks of the form, then mutation.mutate.
HandleAnalyze ==
    /\ ui.view = "form" /\ ui.phase = "idle"
    /\ StrLen(ui.text) # 0
    /\ LET trimmed == Trim(ui.text)
       IN  ui' = IF StrLen(trimmed) = 0
                 THEN UiError(ui, "local",
                              "Please paste a meeting transcript before analyzing.")
                 ELSE IF StrLen(trimmed) < 10
                 THEN UiError(ui, "local", "Transcript must contain at least 10 characters.")
                 ELSE IF StrLen(trimmed) > 5000
                 THEN UiError(ui, "local", "Transcript cannot exceed 5000 characters.")
                 ELSE [ui EXCEPT !.phase = "loading", !.text = trimmed]
    /\ FrameStore
    /\ UNCHANGED <<req, sent, answered, rq>>

\* setSelectedId(item.id), then "Yes, Delete": deleteMutation.mutate(selectedId).
ConfirmDelete ==
    /\ ui.view = "list" /\ ui.phase \in {"success", "delete_error"}
    /\ \E i \in DOMAIN ui.data :
            ui' = [ui EXCEPT !.phase = "deleting", !.selected = ui.data[i].id]
    /\ FrameStore
    /\ UNCHANGED <<req, sent, answered, rq>>

\* The page waits for a request it has not sent yet.
UiToSend ==
    /\ ui.phase \in {"loading", "deleting", "refetching"}
    /\ Running = {}
    /\ ui.seen = answered

\* axios.post / axios.get / axios.delete: the request reaches the handler.
ClientSends ==
    /\ UiToSend
    /\ CASE ui.view = "form" -> AnalyzeStart(1, "POST", TranscriptBody(ui.text))
         [] ui.view = "list" /\ ui.phase = "deleting" ->
                DeleteStart(1, "DELETE", KeyId(ui.selected))
         [] OTHER -> ListStart(1, "GET")

\* The request fails without an answer of the server.
ClientNoResponse ==
    /\ UiToSend
    /\ ui' \in UiFailed(ui, "network", IdleReq)
    /\ FrameStore
    /\ UNCHANGED <<req, sent, answered, rq>>

\* The handler's response arrives: the promise of axios settles and the
\* callbacks of the query or mutation run.
ClientReceives ==
    /\ ui.seen < answered
    /\ \E u \in (IF sent.status >= 200 /\ sent.status < 300
                 THEN { UiResolved(ui, sent) }
                 ELSE UiFailed(ui, "response", sent)) :
            ui' = [u EXCEPT !.seen = answered]
    /\ FrameStore
    /\ UNCHANGED <<req, sent, answered, rq>>

\* ----------------------------------------------------------- specifications
\* A store the program can be in when the requests arrive: empty, or holding
\* one Transcript with its Analysis from an earlier analyze request.
EarlierTranscript == [id |-> 1, text |-> Str(0, SchemaMin, 0), createdAt |-> 0]
EarlierAnalysis ==
    [id |-> 1, transcriptId |-> 1, result |-> AnalysisData(ObjOf("M")), createdAt |-> 0]

InitStore ==
    \/ transcripts = {} /\ analyses = {} /\ nextId = 1 /\ now = 0
    \/ transcripts = {EarlierTranscript} /\ analyses = {EarlierAnalysis}
        /\ nextId = 2 /\ now = 1

Init ==
    /\ InitStore
    /\ req = [r \in Slots |-> IdleReq]
    /\ sent = IdleReq
    /\ answered = 0
    /\ rq = IdleRq
    /\ ui = IdleUi

\* A request with a method the handler refuses carries one body; the others
\* carry every body.
AnalyzeInputs ==
    { <<"POST", b>> : b \in Bodies }
        \cup { <<m, TranscriptBody(Str(0, SchemaMin, 0))>> : m \in Methods \ {"POST"} }

DeleteInputs ==
    { <<"DELETE", i>> : i \in IdArgs } \cup { <<m, KeyId(1)>> : m \in Methods \ {"DELETE"} }

Next ==
    \/ \E r \in Slots, in \in AnalyzeInputs : AnalyzeStart(r, in[1], in[2])
    \/ \E r \in Slots, reply \in HandlerReplies : AnalyzeModelReturn(r, reply)
    \/ \E r \in Slots, o \in DbOutcomes : AnalyzeCreateReturn(r, o)
    \/ \E r \in Slots, m \in Methods : ListStart(r, m)
    \/ \E r \in Slots, o \in DbOutcomes : ListFindManyReturn(r, o)
    \/ \E r \in Slots, in \in DeleteInputs : DeleteStart(r, in[1], in[2])
    \/ \E r \in Slots, o \in DbOutcomes : DeleteFindReturn(r, o)
    \/ \E r \in Slots, o \in DbOutcomes : DeleteDeleteReturn(r, o)

Spec == Init /\ [][Next]_vars

InitRequester ==
    /\ transcripts = {} /\ analyses = {} /\ nextId = 1 /\ now = 0
    /\ req = [r \in Slots |-> IdleReq]
    /\ sent = IdleReq
    /\ answered = 0
    /\ \E s \in RequesterStrs : rq = [IdleRq EXCEPT !.pc = "called", !.text = s]
    /\ ui = IdleUi

NextRequester ==
    \/ RqCall
    \/ rq.pc = "await_model" /\ \E reply \in RepliesFor(rq.text) : RqReturn(reply)

SpecRequester == InitRequester /\ [][NextRequester]_vars

\* One page at work against the three handlers.
InitClient ==
    /\ InitStore
    /\ req = [r \in Slots |-> IdleReq]
    /\ sent = IdleReq
    /\ answered = 0
    /\ rq = IdleRq
    /\ ui \in { FormUi(s) : s \in Strs } \cup {ListUi} \cup { DetailUi(k) : k \in 1..MaxKey }

NextClient ==
    \/ HandleAnalyze
    \/ ConfirmDelete
    \/ ClientSends
    \/ ClientNoResponse
    \/ ClientReceives
    \/ \E r \in Slots, reply \in HandlerReplies : AnalyzeModelReturn(r, reply)
    \/ \E r \in Slots, o \in DbOutcomes : AnalyzeCreateReturn(r, o)
    \/ \E r \in Slots, o \in DbOutcomes : ListFindManyReturn(r, o)
    \/ \E r \in Slots, o \in DbOutcomes : DeleteFindReturn(r, o)
    \/ \E r \in Slots, o \in DbOutcomes : DeleteDeleteReturn(r, o)

SpecClient == InitClient /\ [][NextClient]_vars

\* ------------------------------------------------------------------ claims
FromEarlier(row) == row \in {EarlierTranscript, EarlierAnalysis}

StoreSame == transcripts' = transcripts /\ analyses' = analyses

\* The step sends a response: sent' is the exchange it ends.
Answers == answered' = answered + 1

OutOfBounds(q) ==
    /\ q.kind = "analyze" /\ q.method = "POST"
    /\ q.body.kind = "object" /\ q.body.hasStr
    /\ (StrLen(q.body.transcript) < 10 \/ StrLen(q.body.transcript) > 5000)

\* C1: an analyze POST whose transcript string is shorter than 10 or longer
\* than 5000 is answered 400 at once: it never waits for the model or the
\* database, it has called neither, and no Transcript row holds its text.
C1_OutOfBoundsRejected ==
    /\ \A r \in Slots : ~OutOfBounds(req[r])
    /\ OutOfBounds(sent) =>
        /\ sent.status = 400 /\ sent.error # "none"
        /\ sent.modelCalls = 0 /\ sent.modelResult = "none"
        /\ sent.dbOps = <<>> /\ sent.out = <<>>
    /\ \A t \in transcripts : StrLen(t.text) >= 10 /\ StrLen(t.text) <= 5000

\* C1 witness: a request whose transcript is 5001 characters long, 5000 once
\* trimmed, was answered 400.
C1_Witness ==
    /\ OutOfBounds(sent)
    /\ StrLen(sent.body.transcript) = 5001 /\ StrLen(Trim(sent.body.transcript)) = 5000
    /\ sent.status = 400

ModelFailed(q) == q.kind = "analyze" /\ q.modelCalls = 1 /\ q.modelResult \notin {"none", "ok"}

\* C2: when the model call of an analyze request with a valid transcript fails,
\* the request is answered 500, it has issued no database call, and the step
\* that answers it leaves the store as it is.
C2_ModelFailureWritesNothing ==
    /\ [](ModelFailed(sent) =>
            /\ SchemaOK(sent.body)
            /\ sent.status = 500 /\ sent.error = "AI analysis failed."
            /\ sent.dbOps = <<>> /\ sent.out = <<>>)
    /\ [](\A r \in Slots : ~ModelFailed(req[r]))
    /\ [][(Answers /\ ModelFailed(sent')) => StoreSame]_vars

\* C2 witness: a request with a valid transcript whose model call threw has
\* been answered 500.
C2_Witness ==
    /\ ModelFailed(sent) /\ sent.modelResult = "ApiFailure"
    /\ SchemaOK(sent.body) /\ sent.status = 500

DeleteOf(q) == q.kind = "delete" /\ q.method = "DELETE" /\ q.id.kind = "string"

\* C3 as stated: a delete request with a non-empty id that matches no Analysis
\* is always answered 404, and the store stays as it is.
C3_Original ==
    [][(/\ Answers /\ DeleteOf(sent') /\ sent'.id.len > 0
        /\ Existing(sent'.id.key) = {})
            => (sent'.status = 404 /\ StoreSame)]_vars

\* C3 amended: a delete request whose id is not blank and matches no Analysis
\* is never answered 200 and leaves the store as it is; it is answered 404
\* unless the database call fails with another error than "record not found",
\* and then 503 for a connection failure and 500 otherwise.
C3_UnknownIdNotFound ==
    [][(/\ Answers /\ DeleteOf(sent') /\ sent'.id.trimLen > 0
        /\ Existing(sent'.id.key) = {})
            => (/\ StoreSame
                /\ sent'.status # 200
                /\ sent'.error # "none"
                /\ sent'.status =
                     (CASE sent'.dbErr \in {"none", "P2025"} -> 404
                        [] sent'.dbErr = "P1001" -> 503
                        [] OTHER -> 500))]_vars

\* C3 witness: a delete request for a key that no Analysis has was answered 404
\* by the existence check.
C3_Witness ==
    /\ DeleteOf(sent) /\ sent.id.key = MaxKey /\ Existing(MaxKey) = {}
    /\ sent.dbOps = <<"findUnique">> /\ sent.dbErr = "none"
    /\ sent.status = 404

ListOf(q) == q.kind = "list" /\ q.method = "GET"

\* C4 as stated: a list request on a store without any Analysis is answered
\* 404 with an error body, and 200 goes only with a non-empty array.
C4_Original ==
    /\ []((ListOf(sent) /\ sent.status = 200) => sent.out # <<>>)
    /\ [][(Answers /\ ListOf(sent') /\ analyses = {})
            => (sent'.status = 404 /\ sent'.error # "none")]_vars

\* C4 amended: a list request on a store without any Analysis is never answered
\* 200; it is answered 404 with an error body when the read succeeds, 503 when
\* the read fails on the connection and 500 when it fails otherwise.  A 200
\* always carries a non-empty array.
C4_EmptyListNotFound ==
    /\ []((ListOf(sent) /\ sent.status = 200) => sent.out # <<>>)
    /\ [][(Answers /\ ListOf(sent') /\ analyses = {})
            => (/\ sent'.status # 200
                /\ sent'.error # "none"
                /\ sent'.out = <<>>
                /\ sent'.status =
                     (CASE sent'.dbErr = "none" -> 404
                        [] sent'.dbErr = "P1001" -> 503
                        [] OTHER -> 500))]_vars

\* C4 witness: a list request read an empty Analysis table and was answered 404.
C4_Witness ==
    /\ ListOf(sent) /\ sent.status = 404 /\ sent.dbErr = "none"
    /\ sent.error = "No analyses found." /\ analyses = {}

\* C5 as stated: in all three handlers a failed database call is answered by
\* its code: 404 for not-found, 503 for a connection failure, 500 otherwise.
C5_Original ==
    sent.dbErr # "none" =>
        sent.status = (CASE sent.dbErr = "P2025" -> 404
                         [] sent.dbErr = "P1001" -> 503
                         [] OTHER -> 500)

\* C5 amended: the delete handler answers a failed database call 404 for
\* not-found, 503 for a connection failure and 500 otherwise; the list handler
\* answers 503 for a connection failure and 500 for every other failure; the
\* analyze handler answers every failed save 500.
C5_ErrorCodeMapping ==
    sent.dbErr # "none" =>
        /\ sent.kind = "delete" =>
            sent.status = (CASE sent.dbErr = "P2025" -> 404
                             [] sent.dbErr = "P1001" -> 503
                             [] OTHER -> 500)
        /\ sent.kind = "list" => sent.status = (IF sent.dbErr = "P1001" THEN 503 ELSE 500)
        /\ sent.kind = "analyze" => sent.status = 500
        /\ sent.error # "none"

\* C5 witness: a delete passed the existence check, its delete call failed with
\* "record not found" because the row had gone meanwhile, and it was answered
\* 404.
C5_Witness ==
    /\ sent.kind = "delete" /\ sent.dbErr = "P2025" /\ sent.status = 404
    /\ sent.dbOps = <<"findUnique", "delete">>

TranscriptsOf(a) == { t \in transcripts : t.id = a.transcriptId }

AnalysesOf(t) == { a \in analyses : a.transcriptId = t.id }

NewTranscripts == transcripts' \ transcripts

NewAnalyses == analyses' \ analyses

\* C6: every Analysis references exactly one existing Transcript and no
\* Transcript has more than one Analysis; a step that adds rows adds one
\* Transcript and its one Analysis together and answers the analyze request
\* 200 with the pair, and a step that answers an analyze request 200 adds such
\* a pair.
C6_PairCreatedTogether ==
    /\ [](\A a \in analyses : Cardinality(TranscriptsOf(a)) = 1)
    /\ [](\A t \in transcripts : Cardinality(AnalysesOf(t)) <= 1)
    /\ [][\/ NewTranscripts = {} /\ NewAnalyses = {}
          \/ \E t \in NewTranscripts, a \in NewAnalyses :
                /\ NewTranscripts = {t} /\ NewAnalyses = {a}
                /\ a.transcriptId = t.id
                /\ Answers /\ sent'.kind = "analyze"
                /\ t.text = sent'.body.transcript
                /\ a.result = AnalysisData(sent'.analysis)
                /\ sent'.status = 200 /\ sent'.out = <<t.id>>]_vars
    /\ [][(Answers /\ sent'.kind = "analyze" /\ sent'.status = 200)
            => (NewTranscripts # {} /\ NewAnalyses # {})]_vars

\* C6 witness: an analyze request was answered 200 while another request was
\* running, and the store holds the Transcript and the Analysis it was answered
\* with.
C6_Witness ==
    /\ sent.kind = "analyze" /\ sent.status = 200
    /\ Running # {}
    /\ \E t \in transcripts, a \in analyses :
        /\ sent.out = <<t.id>> /\ a.transcriptId = t.id
        /\ t.text = sent.body.transcript

\* C7: the text of every Transcript row is 10 to 5000 characters long, and no
\* step removes or changes a Transcript row.
C7_TranscriptTextBounded ==
    /\ [](\A t \in transcripts : StrLen(t.text) >= 10 /\ StrLen(t.text) <= 5000)
    /\ [][\A t \in transcripts : t \in transcripts']_vars

\* C7 witness: the store holds a Transcript of 5000 characters written by an
\* analyze request, and the Analysis of an earlier Transcript has been deleted.
C7_Witness ==
    \E t \in transcripts :
        /\ ~FromEarlier(t) /\ StrLen(t.text) = 5000
        /\ EarlierTranscript \in transcripts /\ EarlierAnalysis \notin analyses

\* The awaits a handler can be suspended at, and how many awaits are left at
\* most before it answers.
AwaitsLeft(pc) ==
    CASE pc \in {"await_model", "await_findUnique"} -> 2
      [] pc \in {"await_create", "await_delete", "await_findMany"} -> 1
      [] OTHER -> 0

\* C11: every invocation of a handler ends with exactly one response and no
\* exception leaves a handler: an invocation under way is suspended at one of
\* its awaits and has sent nothing, every step of it either sends its one
\* response or takes it to a later await, and every response sent has a status,
\* and with a status of 400 or more an error message in its body.
C11_OneResponseAlways ==
    /\ [](\A r \in Slots : req[r].pc # "idle" =>
            /\ AwaitsLeft(req[r].pc) > 0
            /\ req[r].responses = 0)
    /\ [](sent.kind # "none" =>
            /\ sent.responses = 1
            /\ sent.status \in {200, 400, 404, 405, 500, 503}
            /\ sent.status >= 400 => (sent.error # "none" /\ sent.message = "none"))
    /\ [][\A r \in Slots : req'[r] # req[r] =>
            \/ req'[r].pc = "idle" /\ Answers
            \/ AwaitsLeft(req'[r].pc) < AwaitsLeft(req[r].pc)
            \/ req[r].pc = "idle"]_vars

\* C11 witness: a delete whose prisma.analysis.delete failed without an error
\* code was answered 500 with an error message.
C11_Witness ==
    /\ sent.kind = "delete" /\ sent.dbOps = <<"findUnique", "delete">>
    /\ sent.dbErr = "nocode" /\ sent.responses = 1
    /\ sent.status = 500
    /\ sent.error = "Unexpected server error while deleting analysis."


\* The shape AnalysisResultSchema describes: every action item has a string
\* owner, a string task and a string or null deadline, every decision is a
\* string, sentiment is a string.
ValidatedShape(result) ==
    /\ result.actionItems = "items_ok"
    /\ result.decisions = "strings"
    /\ result.sentiment = "string"

\* C12: every Analysis in the store has the validated analysis shape.
C12_PersistedAnalysisShape ==
    \A a \in analyses : ValidatedShape(a.result)

\* C12 witness: the model replied with an object whose action_items holds an
\* item without owner, the request was answered 200 and the store holds that
\* Analysis.
C12_Witness ==
    /\ sent.kind = "analyze" /\ sent.status = 200
    /\ sent.analysis = ObjOf("Bi")
    /\ \E a \in analyses : sent.out = <<a.id>> /\ a.result.actionItems = "items_bad"

\* C13: a step that answers a delete request 200 removes the one Analysis with
\* the given id and nothing else: its Transcript and every other row stay as
\* they are, and the body carries the confirmation message; and no other step
\* removes an Analysis.
C13_DeleteRemovesOnlyTheAnalysis ==
    /\ [][(Answers /\ sent'.kind = "delete" /\ sent'.status = 200) =>
            \E a \in analyses :
                /\ a.id = sent'.id.key
                /\ analyses' = analyses \ {a}
                /\ transcripts' = transcripts
                /\ TranscriptsOf(a) # {}
                /\ sent'.message = "Analysis deleted successfully."
                /\ sent'.error = "none"]_vars
    /\ [][(analyses \ analyses' # {}) =>
            (Answers /\ sent'.kind = "delete" /\ sent'.status = 200)]_vars

\* C13 witness: the Analysis of the earlier Transcript was deleted and answered
\* 200 while the store held a second pair: the earlier Transcript and the
\* second pair are still there.
C13_Witness ==
    /\ sent.kind = "delete" /\ sent.status = 200 /\ sent.id.key = EarlierAnalysis.id
    /\ EarlierTranscript \in transcripts /\ EarlierAnalysis \notin analyses
    /\ \E a \in analyses : TranscriptsOf(a) # {}

BadId(q) ==
    /\ q.kind = "delete" /\ q.method = "DELETE"
    /\ (q.id.kind = "missing" \/ q.id.kind # "string" \/ q.id.len = 0 \/ q.id.trimLen = 0)

\* C14: a delete request whose id is missing, not a single string, empty or
\* whitespace only is answered 400 at once: it never waits for the store, it
\* has issued no store call, and the step that answers it leaves the store as
\* it is.
C14_BadIdRejected ==
    /\ [](\A r \in Slots : ~BadId(req[r]))
    /\ [](BadId(sent) =>
            /\ sent.status = 400 /\ sent.error = "Invalid or missing analysis ID."
            /\ sent.dbOps = <<>> /\ sent.dbErr = "none")
    /\ [][(Answers /\ BadId(sent')) => StoreSame]_vars

\* C14 witness: a delete request with a whitespace-only id was answered 400
\* while the store held an Analysis.
C14_Witness ==
    /\ sent.kind = "delete" /\ sent.id = BlankId /\ sent.status = 400
    /\ sent.dbOps = <<>> /\ analyses # {}

WrongMethod(q) ==
    \/ q.kind = "analyze" /\ q.method # "POST"
    \/ q.kind = "list" /\ q.method # "GET"
    \/ q.kind = "delete" /\ q.method # "DELETE"

\* C15: a request with another method than the handler's own is answered 405
\* at once: it never waits for the model or the store, it has called neither,
\* and the step that answers it leaves the store as it is.
C15_OnlyDesignatedMethod ==
    /\ [](\A r \in Slots : ~WrongMethod(req[r]))
    /\ [](WrongMethod(sent) =>
            /\ sent.status = 405 /\ sent.error # "none"
            /\ sent.dbOps = <<>> /\ sent.modelCalls = 0 /\ sent.modelResult = "none")
    /\ [][(Answers /\ WrongMethod(sent')) => StoreSame]_vars

\* C15 witness: a POST to the delete handler that names an existing Analysis
\* was answered 405 and the Analysis is still there.
C15_Witness ==
    /\ sent.kind = "delete" /\ sent.method = "POST" /\ sent.status = 405
    /\ Existing(sent.id.key) # {}

Creates(q) == Cardinality({ i \in DOMAIN q.dbOps : q.dbOps[i] = "create" })

StoreReachable(q) == q.dbErr \in {"none", "P2025"}

\* C20: delete requests for one id race for its Analysis.  No id is handed out
\* twice, so an Analysis that is gone stays gone; with the store reachable, the
\* step that answers a delete request answers 200 exactly when the Analysis is
\* still there, and then removes it, and answers 404 when it is gone, whether
\* the request learnt that from its existence check or from its delete; it
\* never answers 500.  Hence of the requests for one existing id exactly the
\* one whose delete runs first is answered 200 and the others 404.
C20_ConcurrentDeletesOneWinner ==
    /\ [](\A a \in analyses : a.id < nextId)
    /\ [][\A a \in NewAnalyses : a.id = nextId /\ nextId' > nextId]_vars
    /\ [][(/\ Answers /\ DeleteOf(sent') /\ sent'.id.trimLen > 0
           /\ StoreReachable(sent'))
            => IF Existing(sent'.id.key) # {}
               THEN /\ sent'.status = 200
                    /\ analyses' = analyses \ Existing(sent'.id.key)
                    /\ sent'.dbOps = <<"findUnique", "delete">>
               ELSE /\ sent'.status = 404
                    /\ StoreSame]_vars

\* C20 witness: two delete requests for the earlier Analysis both passed the
\* existence check; the first delete was answered 200 and the second, whose
\* delete found the row gone, has now been answered 404.
C20_Witness ==
    /\ answered = 2
    /\ sent.kind = "delete" /\ sent.id.key = EarlierAnalysis.id
    /\ sent.dbOps = <<"findUnique", "delete">> /\ sent.dbErr = "P2025"
    /\ sent.status = 404
    /\ EarlierAnalysis \notin analyses /\ EarlierTranscript \in transcripts

TrimmedShort(q) ==
    /\ q.kind = "analyze" /\ q.method = "POST"
    /\ q.body.kind = "object" /\ q.body.hasStr
    /\ StrLen(q.body.transcript) >= 10 /\ StrLen(q.body.transcript) <= 5000
    /\ StrLen(Trim(q.body.transcript)) < 10

\* C21: an analyze request whose transcript is 10 to 5000 characters long but
\* shorter than 10 once trimmed is answered 400 at once: it never waits for
\* the model or the store, it has called neither, and the step that answers it
\* leaves the store as it is.  The text of a Transcript row a step adds is the
\* transcript of the request that step answers, whitespace included.
C21_TrimmedLengthChecked ==
    /\ [](\A r \in Slots : ~TrimmedShort(req[r]))
    /\ [](TrimmedShort(sent) =>
            /\ sent.status = 400
            /\ sent.error =
                "Transcript must be a non-empty string with at least 10 characters."
            /\ sent.modelCalls = 0 /\ sent.modelResult = "none"
            /\ sent.dbOps = <<>> /\ sent.out = <<>>)
    /\ [][(Answers /\ TrimmedShort(sent')) => StoreSame]_vars
    /\ [][\A t \in NewTranscripts :
            /\ Answers /\ sent'.kind = "analyze" /\ sent'.status = 200
            /\ t.text = sent'.body.transcript
            /\ StrLen(t.text) = StrLen(sent'.body.transcript)]_vars

\* C21 witness: a transcript of 10 characters, 9 once trimmed, was answered
\* 400, and the store holds a Transcript whose text kept its trailing
\* whitespace.
C21_Witness ==
    /\ TrimmedShort(sent) /\ sent.status = 400
    /\ StrLen(sent.body.transcript) = 10 /\ sent.body.transcript.core = 9
    /\ \E t \in transcripts : t.text.trail > 0 /\ t.text # Trim(t.text)

\* C8 as stated: a direct call of analyzeMeeting with text shorter than 10 or
\* longer than 5000 characters fails with an explicit error and does not invoke
\* the model.
C8_Original ==
    (rq.pc # "called" /\ (StrLen(rq.text) < 10 \/ StrLen(rq.text) > 5000))
        => (/\ ~rq.invoked
            /\ rq.pc = "done"
            /\ rq.result = Throw("InvalidTranscript"))

\* C8 amended: analyzeMeeting re-validates the lower limit only, on the trimmed
\* text: called with text that is empty or shorter than 10 characters after
\* trimming (so with any text shorter than 10) it fails with an explicit error
\* and does not invoke the model; text longer than 5000 characters whose
\* trimmed length is at least 10 is not rejected and the model is invoked.
C8_RequesterChecksMinimum ==
    /\ (rq.pc # "called" /\ StrLen(Trim(rq.text)) < 10)
        => (/\ ~rq.invoked
            /\ rq.pc = "done"
            /\ rq.result = Throw("InvalidTranscript"))
    /\ (rq.pc # "called" /\ StrLen(Trim(rq.text)) >= 10) => rq.invoked

\* C8 witness: a call with a 10-character text that is 9 characters long once
\* trimmed has thrown without invoking the model.
C8_Witness ==
    /\ rq.pc = "done" /\ ~rq.invoked
    /\ StrLen(rq.text) >= 10 /\ StrLen(Trim(rq.text)) = 9
    /\ rq.result.kind = "throw" /\ rq.result.msg = "InvalidTranscript"

RequesterErrors ==
    {"InvalidTranscript", "ApiFailure", "NoTextContent", "InvalidJsonFormat", "FailedToParse"}

\* C9: analyzeMeeting returns a value only when the reply has a text block, the
\* text has a match from a "{" to a "}" that parses as JSON once the fence
\* markers are deleted, and the parsed object has an array action_items, an
\* array decisions and a string sentiment, and then it returns that object; in
\* every other case it throws an error and returns nothing.
C9_ReturnsOnlyWellFormed ==
    rq.pc = "done" =>
        LET span == Match(TrimText(rq.reply.text))
            parsed == JSONParse(StripFences(span))
            wellFormed ==
                /\ rq.invoked
                /\ rq.reply.kind = "text"
                /\ span # <<>>
                /\ parsed.ok
                /\ IsArray(parsed.value.action_items)
                /\ IsArray(parsed.value.decisions)
                /\ parsed.value.sentiment = "string"
        IN  /\ rq.result.kind \in {"return", "throw"}
            /\ rq.result.kind = "return" <=> wellFormed
            /\ rq.result.kind = "return" =>
                    (rq.result.value = parsed.value /\ rq.result.msg = "none")
            /\ rq.result.kind = "throw" =>
                    (rq.result.value = NoObj /\ rq.result.msg \in RequesterErrors)

\* C9 witness: a reply of prose followed by a well-formed object was returned,
\* in a run where the object is the reply's last token but one.
C9_Witness ==
    /\ rq.pc = "done"
    /\ rq.reply = TextReply(<<"p", "{", "w", "M", "}">>)
    /\ rq.result = Return(ObjOf("M"))

Wrapping == {"F", "J", "p", "w"}

\* The reply is one JSON object (text[i..j]) with nothing but fence markers,
\* prose and whitespace around it.
WrappedObjectAt(text, i, j) ==
    /\ i < j /\ text[i] = "{" /\ text[j] = "}"
    /\ JSONParse(SubSeq(text, i, j)).ok
    /\ \A k \in 1..Len(text) : (k < i \/ k > j) => text[k] \in Wrapping

NoBracePair(text) ==
    ~\E i, j \in 1..Len(text) : i < j /\ text[i] = "{" /\ text[j] = "}"

\* C10: from a reply that is exactly one JSON object (of the shape of an
\* analysis) wrapped in fence markers and/or preceded or followed by prose,
\* analyzeMeeting returns that embedded object; a reply without a "{" ... "}"
\* pair fails explicitly.
C10_ExtractsEmbeddedObject ==
    (rq.pc = "done" /\ rq.reply.kind = "text") =>
        /\ \A i, j \in 1..Len(rq.reply.text) :
               LET embedded == JSONParse(SubSeq(rq.reply.text, i, j)).value
               IN  (/\ WrappedObjectAt(rq.reply.text, i, j)
                    /\ IsArray(embedded.action_items) /\ IsArray(embedded.decisions)
                    /\ embedded.sentiment = "string")
                       => rq.result = Return(embedded)
        /\ NoBracePair(rq.reply.text) => rq.result = Throw("InvalidJsonFormat")

\* C10, the part that holds: the same, for an object none of whose strings
\* contains a fence marker.
C10_FenceFreeObjectExtracted ==
    (rq.pc = "done" /\ rq.reply.kind = "text") =>
        /\ \A i, j \in 1..Len(rq.reply.text) :
               LET embedded == JSONParse(SubSeq(rq.reply.text, i, j)).value
               IN  (/\ WrappedObjectAt(rq.reply.text, i, j)
                    /\ IsArray(embedded.action_items) /\ IsArray(embedded.decisions)
                    /\ embedded.sentiment = "string"
                    /\ \A k \in i..j : rq.reply.text[k] # "T")
                       => rq.result = Return(embedded)
        /\ NoBracePair(rq.reply.text) => rq.result = Throw("InvalidJsonFormat")

\* C10 witness: the object between a ```json marker and a closing ``` marker
\* was returned.
C10_Witness ==
    /\ rq.pc = "done"
    /\ rq.reply = TextReply(<<"J", "{", "M", "}", "F">>)
    /\ rq.result = Return(ObjOf("M"))

\* The page shows an error after the server answered the request it is about.
FailedOnResponse ==
    /\ ui.phase \in {"error", "delete_error"}
    /\ ui.cause = "response"
    /\ ui.seen = answered
    /\ sent.status >= 400

\* C18: whenever a page is in its error state because the server answered its
\* request with an error body, the message the page shows is the error message
\* of that body.
C18_ServerMessageVerbatim ==
    (FailedOnResponse /\ sent.error # "none") => ui.message = sent.error

\* C18, the pages that do show the server's message: the form and the
\* transcript page.
C18_FormAndDetailVerbatim ==
    (FailedOnResponse /\ sent.error # "none" /\ ui.view \in {"form", "detail"})
        => ui.message = sent.error

\* C18 witness: the list handler answered 503 "Database connection error." and
\* the past-analyses page shows its own message.
C18_Witness ==
    /\ FailedOnResponse /\ ui.view = "list" /\ ui.phase = "error"
    /\ sent.status = 503 /\ sent.error = "Database connection error."
    /\ ui.message = "Unable to fetch analyses from server."

\* The past-analyses page has settled on the answer to a read of the store
\* that succeeded.
ListSettledOnRead ==
    /\ ui.view = "list" /\ ui.phase \in {"error", "empty", "success"}
    /\ ui.cause # "network"
    /\ ui.seen = answered
    /\ ListOf(sent) /\ sent.dbErr = "none"

\* C19: when the past-analyses page has settled on a read of a store that
\* holds no Analysis, it is in its empty state.
C19_EmptyStoreShowsEmptyState ==
    (ListSettledOnRead /\ analyses = {}) => ui.phase = "empty"

\* C19, what holds instead: the page is never in its empty state.
C19_EmptyStateNeverShown ==
    ui.phase # "empty"

\* C19 witness: the store holds no Analysis, the list handler answered 404 and
\* the past-analyses page is in its error state.
C19_Witness ==
    /\ ListSettledOnRead /\ analyses = {}
    /\ sent.status = 404 /\ sent.error = "No analyses found."
    /\ ui.phase = "error" /\ ui.message = "Unable to fetch analyses from server."

====
